---- MODULE Spec2Model ----
(***************************************************************************)
(* The task engine of logic/generic_logic.py (GenericLogic.registerTask,   *)
(* TaskResult, InterruptableTask) and the module sharing of core/remote.py *)
(* (RemoteObjectManager, RemoteModuleService), as state machines.          *)
(*                                                                         *)
(* Python raises AttributeError when an attribute that was never set is    *)
(* read, and NameError when an unbound name is read.  Both are modelled:   *)
(* attrs[t] is the set of attribute names an InterruptableTask carries,    *)
(* and every call records the exception that reaches its caller.           *)
(***************************************************************************)
EXTENDS Integers, Sequences, FiniteSets, TLC

VARIABLES
    funcKind,       \* task -> what the work callable given to __init__ does
    current,        \* task -> Fysom's current state
    interruptable,  \* task -> self.interruptable
    attrs,          \* task -> names of the attributes the object carries
    result,         \* task -> self.result (a TaskResult), meaningful once set
    lock,           \* task -> holder of self.lock (0: free)
    pc,             \* thread -> where the thread is inside a call
    tasks,          \* GenericLogic._tasks.storage: name -> task (0: absent)
    taskLock,       \* logic module -> holder of self.taskLock (0: free)
    sharedModules,  \* RemoteObjectManager.sharedModules.storage: name -> object
    server,         \* number of RPyCServer objects createServer has started
    last,           \* the call that returned last, and what its caller saw
    remoteModules,  \* RemoteObjectManager.remoteModules: the RemoteModule list
    url,            \* the URL given to getRemoteModuleUrl, and what it resolved to
    script,         \* a caller making a fixed sequence of calls on one task
    prepost         \* task -> the PrePostTask constructed from its name and
                    \* callable, if the constructor returned one

vars == <<funcKind, current, interruptable, attrs, result, lock, pc, tasks,
          taskLock, sharedModules, server, last, remoteModules, url, script,
          prepost>>

\* What the calls on tasks and registries leave alone.
remoteVars == <<remoteModules, url, prepost>>

-----------------------------------------------------------------------------
(* Bounds *)

NumTasks == 3
NumThreads == 2
NumLogic == 2
NumNames == 2
NumObjs == 2
MaxServers == 2
MaxRemote == 2
MaxPathLen == 3

Tasks == 1..NumTasks
Threads == 1..NumThreads
Logics == 1..NumLogic
Names == 1..NumNames
Objs == 1..NumObjs

\* Python's None, where a task, an object or a lock holder is expected.
None == 0

\* What a work callable can be: it returns, it raises, or it is no callable.
FuncKinds == {"returns", "raises", "notcallable"}

\* self.name: tasks 1 and 2 are constructed with the same name, 3 and 4 with
\* the next one, and so on.
TaskName(t) == (t + 1) \div 2

TaskNames == {TaskName(t) : t \in Tasks}

-----------------------------------------------------------------------------
(* The record of a finished call *)

\* called: the callables of the task the call invoked, in order; a call
\* invokes none unless it says so.
Call(op, obj, val, exc, ret, logs, sig) ==
    [op |-> op, obj |-> obj, val |-> val, exc |-> exc, ret |-> ret,
     logs |-> logs, sig |-> sig, called |-> <<>>]

NoCall == Call("none", None, None, "none", "None", <<>>, "")

LogEntry(level, msg, arg) == [level |-> level, msg |-> msg, arg |-> arg]

Idle == [at |-> "idle", l |-> None, t |-> None, r |-> "None"]

\* No URL given, and no caller following a script.
NoUrl == [host |-> "", port |-> None, path |-> <<>>, resolved |-> FALSE,
          toHost |-> "", toPort |-> None, name |-> <<>>]

NoScript == [t |-> None, calls |-> <<>>, done |-> <<>>]

\* No PrePostTask object.
NoPrePost == [exists |-> FALSE, current |-> "", emitted |-> <<>>]

-----------------------------------------------------------------------------
(* InterruptableTask: construction *)

\* The table __init__ writes into its local _stateList.
StateList ==
    [initial |-> <<"stopped">>,
     events |-> {[name |-> "run", src |-> "stopped", dst |-> "running"],
                 [name |-> "pause", src |-> "running", dst |-> "paused"],
                 [name |-> "finish", src |-> "running", dst |-> "stopped"],
                 [name |-> "resume", src |-> "paused", dst |-> "running"]},
     callbacks |-> {"run", "pause", "resume", "finish"}]

\* The events of _stateList, with pause allowed from every state ('*').
FysomCfgPauseAnywhere ==
    [initial |-> StateList.initial,
     events |-> {IF e.name = "pause" THEN [e EXCEPT !.src = "*"] ELSE e :
                    e \in StateList.events}]

\* The configuration the state machine is built from: Fysom.__init__(self)
\* is called without _stateList, so it is Fysom's default, the empty one.
FysomCfg == [initial |-> <<>>, events |-> {}]

\* Fysom: the state after construction is the initial state of the
\* configuration, 'none' when it names no initial state.
FysomInitial == IF FysomCfg.initial = <<>> THEN "none" ELSE FysomCfg.initial[1]

\* Fysom: one method per event of the configuration.
FysomEventNames == {e.name : e \in FysomCfg.events}

\* Fysom.can(event)
can(t, event) ==
    \E e \in FysomCfg.events :
        e.name = event /\ (e.src = current[t] \/ e.src = "*")

\* Attributes of a task after __init__: those it assigns, the class
\* attributes (signals and methods), and what Fysom.__init__ sets.
InitAttrs ==
    {"lock", "name", "func", "args", "interruptable", "success"}
    \cup {"sigPaused", "sigResumed", "sigExecutionStarted",
          "sigExecutionFinished", "makeInterruptable", "_run", "_pause",
          "_resume", "_finish", "canPause"}
    \cup {"current", "can"} \cup FysomEventNames

\* Attributes of a TaskResult: data, success and the method updata.
TaskResultAttrs == {"data", "success", "updata"}

\* TaskResult(): data and success start as None.
NewTaskResult == [data |-> "None", success |-> "None"]

-----------------------------------------------------------------------------
(* InterruptableTask: the transition handlers *)

\* self.result.update(None, False) on a task whose attributes are a: needs
\* self.result, and a method update on it.  "none" when the call succeeds,
\* else the exception it raises.
ResultUpdate(a) ==
    IF "result" \in a /\ "update" \in TaskResultAttrs
        THEN "none" ELSE "AttributeError"

\* The try block shared by _run, _pause and _resume, on a task whose
\* attributes are a and whose work callable is of kind k:
\*     if callable(self.function): self.function(*self.args, **self.kwargs)
\*     else: self.result.update(None, False)
\* "none" when it completes, else the exception raised inside it.
TryBlock(a, k) ==
    IF "function" \notin a THEN "AttributeError"
    ELSE IF k = "notcallable" THEN ResultUpdate(a)
    ELSE IF ~ ({"args", "kwargs"} \subseteq a) THEN "AttributeError"
    ELSE IF k = "raises" THEN "Exception"
    ELSE "none"

\* Whether the try block invoked the work callable.
WorkInvoked(a, k) ==
    {"function", "args", "kwargs"} \subseteq a /\ k # "notcallable"

\* try/except of _run, _pause and _resume.  The except clause calls
\* self.logMsg and then self.result.update(None, False); an exception raised
\* inside the except clause reaches the caller.
\* exc: what reaches the caller; logs: what was logged; upd: whether
\* result.update(None, False) took effect; work: whether the work ran.
GuardedWork(a, k, name) ==
    IF TryBlock(a, k) = "none"
        THEN [exc |-> "none", logs |-> <<>>, upd |-> (k = "notcallable"),
              work |-> WorkInvoked(a, k)]
    ELSE IF "logMsg" \notin a
        THEN [exc |-> "AttributeError", logs |-> <<>>, upd |-> FALSE,
              work |-> WorkInvoked(a, k)]
    ELSE [exc |-> ResultUpdate(a),
          logs |-> <<LogEntry("error", "Exception during task", name)>>,
          upd |-> (ResultUpdate(a) = "none"), work |-> WorkInvoked(a, k)]

Handlers == {"_run", "_pause", "_resume", "_finish"}

\* The first statement of a handler: _run sets self.result = TaskResult().
HandlerEntryAttrs(t, h) ==
    IF h = "_run" THEN attrs[t] \cup {"result"} ELSE attrs[t]

HandlerEntryResult(t, h) ==
    IF h = "_run" THEN NewTaskResult ELSE result[t]

\* The rest of handler h, on a task whose attributes are a:
\*   _run:    the guarded work.
\*   _pause:  the guarded work, then self.sigPaused.emit().
\*   _resume: the guarded work, then self.sigResumed.eimit(): a signal has
\*            no attribute eimit.
\*   _finish: result.update(self.result, self.success): the name result is
\*            bound nowhere.
HandlerRest(a, k, name, h) ==
    LET g == GuardedWork(a, k, name) IN
    CASE h = "_run" -> g @@ [sig |-> ""]
      [] h = "_pause" ->
            IF g.exc # "none" THEN g @@ [sig |-> ""]
            ELSE IF "sigPaused" \in a THEN g @@ [sig |-> "sigPaused"]
            ELSE [g EXCEPT !.exc = "AttributeError"] @@ [sig |-> ""]
      [] h = "_resume" ->
            IF g.exc # "none" THEN g @@ [sig |-> ""]
            ELSE [g EXCEPT !.exc = "AttributeError"] @@ [sig |-> ""]
      [] OTHER ->
            [exc |-> "NameError", logs |-> <<>>, upd |-> FALSE,
             work |-> FALSE, sig |-> ""]

\* self.result after the handler: (None, False) when update took effect.
ResultAfter(r, out) ==
    IF out.upd THEN [data |-> "None", success |-> "False"] ELSE r

-----------------------------------------------------------------------------
(* InterruptableTask: the calls, each as one step of a single caller *)

\* task.run(), task.pause(), task.resume(), task.finish(): the event methods
\* Fysom builds from its configuration.  An event the configuration does
\* not name is no attribute of the task; an event that is not allowed in
\* the current state raises FysomError; else the state becomes the event's
\* destination.
EventExc(t, e) ==
    IF e \notin attrs[t] THEN "AttributeError"
    ELSE IF ~ can(t, e) THEN "FysomError"
    ELSE "none"

EventDst(t, e) ==
    (CHOOSE ev \in FysomCfg.events :
        ev.name = e /\ (ev.src = current[t] \/ ev.src = "*")).dst

Events == {"run", "pause", "resume", "finish"}

Event(t, e) ==
    /\ current' = IF EventExc(t, e) = "none"
                    THEN [current EXCEPT ![t] = EventDst(t, e)] ELSE current
    /\ last' = Call(e, t, None, EventExc(t, e), "None", <<>>, "")
    /\ UNCHANGED <<funcKind, interruptable, attrs, result, lock, pc, tasks,
                   taskLock, sharedModules, server>>

\* The callables a handler invoked: _run, _pause and _resume all call
\* self.function, and none calls self.pausefunction or self.resumefuncion.
HandlerCalled(out) == IF out.work THEN <<"function">> ELSE <<>>

\* A handler called as the state machine's callback would be; the call
\* record keeps how many times the work callable was invoked.
Callback(t, h) ==
    LET out == HandlerRest(HandlerEntryAttrs(t, h), funcKind[t],
                           TaskName(t), h)
    IN
    /\ attrs' = [attrs EXCEPT ![t] = HandlerEntryAttrs(t, h)]
    /\ result' = [result EXCEPT
                    ![t] = ResultAfter(HandlerEntryResult(t, h), out)]
    /\ last' = [Call(h, t, IF out.work THEN 1 ELSE 0, out.exc, "None",
                     out.logs, out.sig)
                    EXCEPT !.called = HandlerCalled(out)]
    /\ UNCHANGED <<funcKind, current, interruptable, lock, pc, tasks,
                   taskLock, sharedModules, server>>

\* makeInterruptable(pausefunction, resumefunction); pf and rf say whether
\* each argument is callable.  The test is
\*     callable(self.pausefunction) and callable(resumefunction)
\* and it reads the attribute self.pausefunction, not the argument; the
\* attribute "pausefunction()" stands for a stored pause function that is
\* callable.  The call record keeps which of the arguments were callable.
Callables(pf, rf) == (IF pf THEN 2 ELSE 0) + (IF rf THEN 1 ELSE 0)

makeInterruptable(t, pf, rf) ==
    LET exc == IF "pausefunction" \in attrs[t] THEN "none"
               ELSE "AttributeError"
        ok == exc = "none" /\ "pausefunction()" \in attrs[t] /\ rf
    IN
    /\ attrs' = IF ok
                  THEN [attrs EXCEPT
                          ![t] = (@ \ {"pausefunction()"})
                                 \cup {"pausefunction", "resumefuncion"}
                                 \cup (IF pf THEN {"pausefunction()"} ELSE {})]
                  ELSE attrs
    /\ interruptable' = IF ok THEN [interruptable EXCEPT ![t] = TRUE]
                        ELSE interruptable
    /\ last' = Call("makeInterruptable", t, Callables(pf, rf), exc, "None",
                    <<>>, "")
    /\ UNCHANGED <<funcKind, current, result, lock, pc, tasks, taskLock,
                   sharedModules, server>>

\* canPause(): self.interruptable and self.can('pause')
canPauseValue(t) == interruptable[t] /\ can(t, "pause")

canPause(t) ==
    /\ last' = Call("canPause", t, None, "none",
                    IF canPauseValue(t) THEN "True" ELSE "False", <<>>, "")
    /\ UNCHANGED <<funcKind, current, interruptable, attrs, result, lock, pc,
                   tasks, taskLock, sharedModules, server>>

\* Tasks as __init__ leaves them; the work callables are the inputs.
InitTasks ==
    /\ funcKind \in [Tasks -> FuncKinds]
    /\ current = [t \in Tasks |-> FysomInitial]
    /\ interruptable = [t \in Tasks |-> FALSE]
    /\ attrs = [t \in Tasks |-> InitAttrs]
    /\ result = [t \in Tasks |-> NewTaskResult]
    /\ lock = [t \in Tasks |-> None]

InitRest ==
    /\ pc = [th \in Threads |-> Idle]
    /\ tasks = [n \in TaskNames |-> None]
    /\ taskLock = [l \in Logics |-> None]
    /\ sharedModules = [n \in Names |-> None]
    /\ server = 0
    /\ last = NoCall
    /\ remoteModules = <<>>
    /\ url = NoUrl
    /\ prepost = [t \in Tasks |-> NoPrePost]

InitTask == InitTasks /\ InitRest /\ script = NoScript

NextTask ==
    \/ \E t \in Tasks, e \in Events :
          Event(t, e) /\ UNCHANGED <<remoteVars, script>>
    \/ \E t \in Tasks, h \in Handlers :
          Callback(t, h) /\ UNCHANGED <<remoteVars, script>>
    \/ \E t \in Tasks, pf \in BOOLEAN, rf \in BOOLEAN :
          makeInterruptable(t, pf, rf) /\ UNCHANGED <<remoteVars, script>>
    \/ \E t \in Tasks : canPause(t) /\ UNCHANGED <<remoteVars, script>>

SpecTask == InitTask /\ [][NextTask]_vars

\* A caller that makes a sequence of calls on one task from its
\* construction on, and keeps what each call raised and emitted:
\*     task.run(); task.finish()
\*     task.makeInterruptable(f, g); task.run(); task.pause(); task.resume()
\*     task.makeInterruptable(f, g); task._pause(e); task._resume(e)
\* with f and g callable, the last with the handlers called as the state
\* machine's callbacks would be.
RunFinish == <<"run", "finish">>

PauseResume == <<"makeInterruptable", "run", "pause", "resume">>

PauseResumeHandlers == <<"makeInterruptable", "_pause", "_resume">>

Scripts == {RunFinish, PauseResume, PauseResumeHandlers}

ScriptCall(t, c) ==
    IF c = "makeInterruptable" THEN makeInterruptable(t, TRUE, TRUE)
    ELSE IF c \in Handlers THEN Callback(t, c)
    ELSE Event(t, c)

ScriptStep ==
    /\ Len(script.done) < Len(script.calls)
    /\ ScriptCall(script.t, script.calls[Len(script.done) + 1])
    /\ script' = [script EXCEPT
                    !.done = Append(@, [op |-> last'.op, exc |-> last'.exc,
                                        sig |-> last'.sig,
                                        called |-> last'.called])]
    /\ UNCHANGED remoteVars

InitScript ==
    /\ InitTasks
    /\ InitRest
    /\ \E t \in Tasks, calls \in Scripts :
          script = [t |-> t, calls |-> calls, done |-> <<>>]

NextScript == ScriptStep

SpecScript == InitScript /\ [][NextScript]_vars

-----------------------------------------------------------------------------
(* InterruptableTask: handlers entered by concurrent threads *)

\* A thread enters handler h of task t and executes its first statement.
\* No handler acquires self.lock: the mutex is created in __init__ and used
\* nowhere.
HandlerEnter(th, t, h) ==
    /\ pc[th] = Idle
    /\ pc' = [pc EXCEPT ![th] = [at |-> h, l |-> None, t |-> t, r |-> "None"]]
    /\ attrs' = [attrs EXCEPT ![t] = HandlerEntryAttrs(t, h)]
    /\ result' = [result EXCEPT ![t] = HandlerEntryResult(t, h)]
    /\ UNCHANGED <<funcKind, current, interruptable, lock, tasks, taskLock,
                   sharedModules, server, last>>

\* The thread executes the rest of the handler and leaves it.
HandlerLeave(th) ==
    /\ pc[th].at \in Handlers
    /\ LET t == pc[th].t
           out == HandlerRest(attrs[t], funcKind[t], TaskName(t), pc[th].at)
       IN
       /\ result' = [result EXCEPT ![t] = ResultAfter(result[t], out)]
       /\ last' = Call(pc[th].at, t, None, out.exc, "None", out.logs, out.sig)
    /\ pc' = [pc EXCEPT ![th] = Idle]
    /\ UNCHANGED <<funcKind, current, interruptable, attrs, lock, tasks,
                   taskLock, sharedModules, server>>

NextThreads ==
    \/ \E th \in Threads, t \in Tasks, h \in Handlers :
          HandlerEnter(th, t, h) /\ UNCHANGED <<remoteVars, script>>
    \/ \E th \in Threads : HandlerLeave(th) /\ UNCHANGED <<remoteVars, script>>

SpecThreads == InitTask /\ [][NextThreads]_vars

-----------------------------------------------------------------------------
(* GenericLogic.registerTask *)

\* DictTableModel.add(key, data) on the storage s: an existing key is left
\* as it is and None is returned; else the entry is inserted and the key
\* returned.
DictAdd(s, key, data) ==
    IF s[key] # None THEN [storage |-> s, ret |-> "None"]
    ELSE [storage |-> [s EXCEPT ![key] = data], ret |-> "key"]

\* DictTableModel.pop(key) on the storage s: the entry is removed if there.
DictPop(s, key) == [storage |-> [s EXCEPT ![key] = None], ret |-> s[key]]

\* The swapped return codes.
registerTaskCodeSwapped(r) == IF r = "None" THEN "0" ELSE "-1"

\* What registerTask returns, from what _tasks.add returned.
registerTaskCode(r) == IF r = "None" THEN "-1" ELSE "0"

\* with self.taskLock: the lock of the logic module l the call is made on.
\* _tasks is a class attribute: every logic module uses the same storage.
registerTaskAcquire(th, l, t) ==
    /\ pc[th] = Idle
    /\ taskLock[l] = None
    /\ taskLock' = [taskLock EXCEPT ![l] = th]
    /\ pc' = [pc EXCEPT ![th] = [at |-> "add", l |-> l, t |-> t, r |-> "None"]]
    /\ UNCHANGED <<funcKind, current, interruptable, attrs, result, lock,
                   tasks, sharedModules, server, last>>

\* self._tasks.add(task.name, task)
registerTaskAdd(th) ==
    /\ pc[th].at = "add"
    /\ LET a == DictAdd(tasks, TaskName(pc[th].t), pc[th].t) IN
       /\ tasks' = a.storage
       /\ pc' = [pc EXCEPT ![th] = [@ EXCEPT !.at = "return", !.r = a.ret]]
    /\ UNCHANGED <<funcKind, current, interruptable, attrs, result, lock,
                   taskLock, sharedModules, server, last>>

\* The comparison with None, the error message, the return, and the release
\* of the lock on leaving the with block.
registerTaskReturn(th) ==
    /\ pc[th].at = "return"
    /\ last' = Call("registerTask", pc[th].t, pc[th].l, "none",
                    registerTaskCode(pc[th].r),
                    IF pc[th].r = "None"
                        THEN <<LogEntry("error", "Could not register task",
                                        TaskName(pc[th].t))>>
                        ELSE <<>>,
                    "")
    /\ taskLock' = [taskLock EXCEPT ![pc[th].l] = None]
    /\ pc' = [pc EXCEPT ![th] = Idle]
    /\ UNCHANGED <<funcKind, current, interruptable, attrs, result, lock,
                   tasks, sharedModules, server>>

\* Registration does not depend on the work callables.
InitReg ==
    /\ InitTasks
    /\ funcKind = [t \in Tasks |-> "returns"]
    /\ InitRest
    /\ script = NoScript

NextReg ==
    \/ \E th \in Threads, l \in Logics, t \in Tasks :
          registerTaskAcquire(th, l, t) /\ UNCHANGED <<remoteVars, script>>
    \/ \E th \in Threads :
          registerTaskAdd(th) /\ UNCHANGED <<remoteVars, script>>
    \/ \E th \in Threads :
          registerTaskReturn(th) /\ UNCHANGED <<remoteVars, script>>

SpecReg == InitReg /\ [][NextReg]_vars

-----------------------------------------------------------------------------
(* RemoteObjectManager and RemoteModuleService *)

\* Attributes of an RPyCServer: those __init__ sets, and the method run.
RPyCServerAttrs == {"serviceClass", "port", "run"}

\* createServer(port): a thread and an RPyCServer are created and started,
\* whether or not a server exists; self.server names the newest one.
createServer ==
    /\ server < MaxServers
    /\ server' = server + 1
    /\ last' = Call("createServer", None, None, "none", "None",
                    <<LogEntry("status", "Started module server", None)>>, "")
    /\ UNCHANGED <<funcKind, current, interruptable, attrs, result, lock, pc,
                   tasks, taskLock, sharedModules>>

\* stopServer(): if hasattr(self, 'server'): self.server.close()
stopServer ==
    /\ last' = Call("stopServer", None, None,
                    IF server > 0 /\ "close" \notin RPyCServerAttrs
                        THEN "AttributeError" ELSE "none",
                    "None", <<>>, "")
    /\ UNCHANGED <<funcKind, current, interruptable, attrs, result, lock, pc,
                   tasks, taskLock, sharedModules, server>>

\* shareModule(name, obj)
shareModule(n, o) ==
    /\ sharedModules' = DictAdd(sharedModules, n, o).storage
    /\ last' = Call("shareModule", n, o, "none", "None",
                    (IF sharedModules[n] # None
                        THEN <<LogEntry("warning", "already shared", n)>>
                        ELSE <<>>)
                    \o <<LogEntry("status", "Shared module", n)>>, "")
    /\ UNCHANGED <<funcKind, current, interruptable, attrs, result, lock, pc,
                   tasks, taskLock, server>>

\* unshareModule(name): the message is logged when the name is shared.
unshareModule(n) ==
    /\ sharedModules' = DictPop(sharedModules, n).storage
    /\ last' = Call("unshareModule", n, None, "none", "None",
                    IF sharedModules[n] # None
                        THEN <<LogEntry("error", "was not shared", n)>>
                        ELSE <<>>,
                    "")
    /\ UNCHANGED <<funcKind, current, interruptable, attrs, result, lock, pc,
                   tasks, taskLock, server>>

\* What exposed_getModule(name) returns: the entry, or None.
getModuleValue(n) == sharedModules[n]

\* exposed_getModule reads storage[name] without the membership test.
getModuleExcUnchecked(n) ==
    IF sharedModules[n] = None THEN "KeyError" ELSE "none"

\* What exposed_getModule(name) raises: storage[name] is read only when
\* name is in storage, so nothing.
getModuleExc(n) == "none"

\* What exposed_getModule(name) logs on the server.
getModuleLogs(n) ==
    IF getModuleValue(n) # None THEN <<>>
    ELSE <<LogEntry("error", "not shared", n)>>

\* What the caller of getModule holds: a reference to the object, or None.
getModuleRet(n) == IF getModuleValue(n) # None THEN "object" ELSE "None"

\* exposed_getModule(name), served by a server createServer started.
exposed_getModule(n) ==
    /\ server > 0
    /\ last' = Call("getModule", n,
                    IF getModuleExc(n) = "none" THEN getModuleValue(n) ELSE None,
                    getModuleExc(n),
                    IF getModuleExc(n) = "none" THEN getModuleRet(n) ELSE "None",
                    IF getModuleExc(n) = "none" THEN getModuleLogs(n) ELSE <<>>,
                    "")
    /\ UNCHANGED <<funcKind, current, interruptable, attrs, result, lock, pc,
                   tasks, taskLock, sharedModules, server>>

\* ListTableModel.append(data): data becomes the last row of the list.
ListAppend(l, data) == Append(l, data)

\* RemoteModule(host, port, name): rpyc.connect, then root.getModule(name)
\* on the server; the handle keeps the name and what getModule returned.
RemoteModule(n) == [name |-> n, module |-> getModuleValue(n)]

\* getRemoteModule(host, port, name), the peer being this manager's server:
\* the connection is refused when no server listens; an exception of the
\* remote getModule reaches the client; otherwise the handle is appended to
\* remoteModules and its module is returned.
getRemoteModule(n) ==
    /\ Len(remoteModules) < MaxRemote
    /\ IF server = 0
          THEN /\ last' = Call("getRemoteModule", n, None,
                               "ConnectionRefusedError", "None", <<>>, "")
               /\ UNCHANGED remoteModules
          ELSE IF getModuleExc(n) # "none"
          THEN /\ last' = Call("getRemoteModule", n, None, getModuleExc(n),
                               "None", <<>>, "")
               /\ UNCHANGED remoteModules
          ELSE /\ remoteModules' = ListAppend(remoteModules, RemoteModule(n))
               /\ last' = Call("getRemoteModule", n, RemoteModule(n).module,
                               "none", getModuleRet(n), getModuleLogs(n), "")
    /\ UNCHANGED <<funcKind, current, interruptable, attrs, result, lock, pc,
                   tasks, taskLock, sharedModules, server>>

\* The manager as __init__ leaves it: nothing shared, no server attribute.
InitRemote ==
    /\ InitTasks
    /\ funcKind = [t \in Tasks |-> "returns"]
    /\ InitRest
    /\ script = NoScript

NextRemote ==
    \/ createServer /\ UNCHANGED <<remoteVars, script>>
    \/ stopServer /\ UNCHANGED <<remoteVars, script>>
    \/ \E n \in Names, o \in Objs :
          shareModule(n, o) /\ UNCHANGED <<remoteVars, script>>
    \/ \E n \in Names : unshareModule(n) /\ UNCHANGED <<remoteVars, script>>
    \/ \E n \in Names :
          exposed_getModule(n) /\ UNCHANGED <<remoteVars, script>>

SpecRemote == InitRemote /\ [][NextRemote]_vars

\* A client and a peer: the peer's manager has shared any modules, and has
\* started a server or not; the client looks names up.
InitClient ==
    /\ InitTasks
    /\ funcKind = [t \in Tasks |-> "returns"]
    /\ sharedModules \in [Names -> Objs \cup {None}]
    /\ server \in {0, 1}
    /\ pc = [th \in Threads |-> Idle]
    /\ tasks = [n \in TaskNames |-> None]
    /\ taskLock = [l \in Logics |-> None]
    /\ last = NoCall
    /\ remoteModules = <<>>
    /\ url = NoUrl
    /\ script = NoScript
    /\ prepost = [t \in Tasks |-> NoPrePost]

NextClient ==
    \/ \E n \in Names :
          exposed_getModule(n) /\ UNCHANGED <<remoteVars, script>>
    \/ \E n \in Names : getRemoteModule(n) /\ UNCHANGED <<url, script, prepost>>

SpecClient == InitClient /\ [][NextClient]_vars

\* exposed_getModule(name) on a connection thread of the server, beside the
\* manager's thread calling shareModule and unshareModule.  The service reads
\* self.modules.storage itself, under no lock, in two steps: the test
\* `name in self.modules.storage`, then the read of storage[name].  Between
\* the two, pc[th].t keeps the name.
getModuleTest(th, n) ==
    /\ server > 0
    /\ pc[th] = Idle
    /\ IF sharedModules[n] # None
          THEN /\ pc' = [pc EXCEPT ![th] = [Idle EXCEPT !.at = "read",
                                                        !.t = n]]
               /\ UNCHANGED last
          ELSE /\ last' = Call("getModule", n, None, "none", "None",
                               <<LogEntry("error", "not shared", n)>>, "")
               /\ UNCHANGED pc
    /\ UNCHANGED <<funcKind, current, interruptable, attrs, result, lock,
                   tasks, taskLock, sharedModules, server>>

getModuleRead(th) ==
    /\ pc[th].at = "read"
    /\ last' = IF sharedModules[pc[th].t] = None
                 THEN Call("getModule", pc[th].t, None, "KeyError", "None",
                           <<>>, "")
                 ELSE Call("getModule", pc[th].t, sharedModules[pc[th].t],
                           "none", "object", <<>>, "")
    /\ pc' = [pc EXCEPT ![th] = Idle]
    /\ UNCHANGED <<funcKind, current, interruptable, attrs, result, lock,
                   tasks, taskLock, sharedModules, server>>

NextServe ==
    \/ \E n \in Names, o \in Objs :
          shareModule(n, o) /\ UNCHANGED <<remoteVars, script>>
    \/ \E n \in Names : unshareModule(n) /\ UNCHANGED <<remoteVars, script>>
    \/ \E th \in Threads, n \in Names :
          getModuleTest(th, n) /\ UNCHANGED <<remoteVars, script>>
    \/ \E th \in Threads : getModuleRead(th) /\ UNCHANGED <<remoteVars, script>>

SpecServe == InitClient /\ [][NextServe]_vars

-----------------------------------------------------------------------------
(* getRemoteModuleUrl *)

\* URLs scheme://host:port/path: the characters of a path after its first
\* slash, the hosts and the ports.
PathChars == {"/", "a", "b"}

Hosts == {"localhost", "peer"}

Ports == {12345, 12346}

Paths ==
    UNION {[1..k -> PathChars] : k \in 0..MaxPathLen}

\* urlparse(url): the host, the port and the path of such a URL.
urlparse(u) == [hostname |-> u.host, port |-> u.port, path |-> u.path]

\* str.replace('/', ''): the string without any of its slashes.
replace(str) == SelectSeq(str, LAMBDA c : c # "/")

\* getRemoteModuleUrl(url): the arguments getRemoteModule is called with.
getRemoteModuleUrl ==
    /\ ~ url.resolved
    /\ url' = [url EXCEPT !.resolved = TRUE,
                          !.toHost = urlparse(url).hostname,
                          !.toPort = urlparse(url).port,
                          !.name = replace(urlparse(url).path)]
    /\ UNCHANGED <<funcKind, current, interruptable, attrs, result, lock, pc,
                   tasks, taskLock, sharedModules, server, last,
                   remoteModules, script, prepost>>

\* Another URL is given to a manager that resolved one.
nextUrl ==
    /\ url.resolved
    /\ \E h \in Hosts, p \in Ports, rest \in Paths :
          url' = [NoUrl EXCEPT !.host = h, !.port = p,
                               !.path = <<"/">> \o rest]
    /\ UNCHANGED <<funcKind, current, interruptable, attrs, result, lock, pc,
                   tasks, taskLock, sharedModules, server, last,
                   remoteModules, script, prepost>>

InitUrl ==
    /\ InitTasks
    /\ funcKind = [t \in Tasks |-> "returns"]
    /\ pc = [th \in Threads |-> Idle]
    /\ tasks = [n \in TaskNames |-> None]
    /\ taskLock = [l \in Logics |-> None]
    /\ sharedModules = [n \in Names |-> None]
    /\ server = 0
    /\ last = NoCall
    /\ remoteModules = <<>>
    /\ script = NoScript
    /\ prepost = [t \in Tasks |-> NoPrePost]
    /\ \E h \in Hosts, p \in Ports, rest \in Paths :
          url = [NoUrl EXCEPT !.host = h, !.port = p,
                              !.path = <<"/">> \o rest]

NextUrl == getRemoteModuleUrl \/ nextUrl

SpecUrl == InitUrl /\ [][NextUrl]_vars

-----------------------------------------------------------------------------
(* PrePostTask *)

\* The table PrePostTask.__init__ builds in its local _stateList, which it
\* passes to nothing.
PrePostStateList ==
    [initial |-> <<"stopped">>,
     events |-> {[name |-> "prerun", src |-> "stopped", dst |-> "paused"],
                 [name |-> "postrun", src |-> "paused", dst |-> "stopped"]}]

\* The arguments __init__ gives QtCore.QObject.__init__ and Fysom.__init__:
\* none, not the instance either.
BaseInitArgs == <<>>

\* A method taken from its class and called with these arguments: without
\* an instance to bind it raises TypeError.
UnboundCall(args) == IF Len(args) = 0 THEN "TypeError" ELSE "none"

\* What PrePostTask(name, function) raises: its first statement is
\* QtCore.QObject.__init__().
PrePostTaskExc == UnboundCall(BaseInitArgs)

\* task = PrePostTask(name, function), for the name and the callable of t.
\* A constructor that raises returns no object.
PrePostTask(t) ==
    /\ prepost' = IF PrePostTaskExc = "none"
                    THEN [prepost EXCEPT ![t] = [exists |-> TRUE,
                                                 current |-> "none",
                                                 emitted |-> <<>>]]
                    ELSE prepost
    /\ last' = Call("PrePostTask", t, None, PrePostTaskExc,
                    IF PrePostTaskExc = "none" THEN "object" ELSE "None",
                    <<>>, "")
    /\ UNCHANGED <<funcKind, current, interruptable, attrs, result, lock, pc,
                   tasks, taskLock, sharedModules, server, remoteModules,
                   url, script>>

PrePostEvents == {"prerun", "postrun"}

PrePostCalls == PrePostEvents \cup {"PrePostTask.canPause"}

\* task.prerun(), task.postrun() and task.canPause() after the statement
\* task = PrePostTask(name, function): the name task is bound only if the
\* constructor returned.  On an object, the events would be no attributes
\* (Fysom.__init__ is given no table), and canPause, declared without self,
\* would refuse the instance as an argument.
PrePostCallExc(t, m) ==
    IF ~ prepost[t].exists THEN "NameError"
    ELSE IF m \in PrePostEvents THEN "AttributeError"
    ELSE "TypeError"

PrePostCall(t, m) ==
    /\ last' = Call(m, t, None, PrePostCallExc(t, m), "None", <<>>, "")
    /\ UNCHANGED <<funcKind, current, interruptable, attrs, result, lock, pc,
                   tasks, taskLock, sharedModules, server, remoteModules,
                   url, script, prepost>>

NextPrePost ==
    \/ \E t \in Tasks : PrePostTask(t)
    \/ \E t \in Tasks, m \in PrePostCalls : PrePostCall(t, m)

SpecPrePost == InitTask /\ [][NextPrePost]_vars

-----------------------------------------------------------------------------
(* The claims *)

\* The states and the source state of each event in the transition table.
TableStates == {"stopped", "running", "paused"}

TableAllows(e, state) ==
    \E ev \in StateList.events : ev.name = e /\ ev.src = state

RunCalls == {"run", "_run"}

\* C1: a task starts in stopped, and its state is always one of stopped,
\* running and paused.
C1_StateInTable ==
    \A t \in Tasks :
        /\ current[t] \in TableStates
        /\ last = NoCall => current[t] = "stopped"

C4_RunContainsFailure ==
    (last.op \in RunCalls /\ funcKind[last.obj] = "raises")
        => /\ last.exc = "none"
           /\ \E i \in 1..Len(last.logs) :
                 /\ last.logs[i].level = "error"
                 /\ last.logs[i].arg = TaskName(last.obj)
           /\ result[last.obj].success = "False"

\* C5: after run on a task whose work callable raises, the task is stopped.
C5_FailedRunStops ==
    (last.op \in RunCalls /\ funcKind[last.obj] = "raises")
        => current[last.obj] = "stopped"

\* C6: no two threads are inside transition handlers of the same task at
\* the same time.
C6_OneTransitionAtATime ==
    \A th1 \in Threads, th2 \in Threads :
        (th1 # th2 /\ pc[th1].at \in Handlers /\ pc[th2].at \in Handlers)
            => pc[th1].t # pc[th2].t

\* C7: a registered name keeps its task; _tasks.add reports an existing name
\* and inserts nothing then; registerTask returns -1 and logs an error
\* exactly when the name was taken, and 0 otherwise.
C7_RegisterNeverOverwrites ==
    /\ [][\A n \in TaskNames : tasks[n] # None => tasks'[n] = tasks[n]]_vars
    /\ [][\A th \in Threads :
            (pc[th].at = "add" /\ pc'[th].at = "return")
                => /\ (tasks[TaskName(pc[th].t)] # None) <=> (pc'[th].r = "None")
                   /\ tasks[TaskName(pc[th].t)] = None
                        => tasks'[TaskName(pc[th].t)] = pc[th].t]_vars
    /\ [][\A th \in Threads :
            (pc[th].at = "return" /\ pc'[th] = Idle)
                => /\ last'.ret = (IF pc[th].r = "None" THEN "-1" ELSE "0")
                   /\ (pc[th].r = "None") <=>
                        (\E i \in 1..Len(last'.logs) :
                            last'.logs[i].level = "error")]_vars

\* C7, its case: a registration returned -1 and the name still maps to the
\* other task, registered first.
C7_Witness ==
    /\ last.op = "registerTask"
    /\ last.ret = "-1"
    /\ tasks[TaskName(last.obj)] \notin {None, last.obj}

\* C8: no two threads are at the same time between the acquisition of the
\* lock and the return of registerTask.
C8_RegistrationSerialized ==
    \A th1 \in Threads, th2 \in Threads :
        th1 # th2 =>
            ~ (pc[th1].at \in {"add", "return"}
               /\ pc[th2].at \in {"add", "return"})

WarningCount(logs) ==
    Cardinality({i \in 1..Len(logs) : logs[i].level = "warning"})

\* C10: shareModule on a name that is shared logs exactly one warning and
\* leaves the name mapped to the object of this call; on a name that is not
\* shared it logs no warning.
C10_ReshareOverwrites ==
    [][last'.op = "shareModule"
          => IF sharedModules[last'.obj] # None
                THEN /\ WarningCount(last'.logs) = 1
                     /\ sharedModules'[last'.obj] = last'.val
                ELSE WarningCount(last'.logs) = 0]_vars

NotSharedLogged(logs) ==
    \E i \in 1..Len(logs) :
        logs[i].level = "error" /\ logs[i].msg = "was not shared"

\* C11: unshareModule on a name that is not shared logs the error saying the
\* module was not shared, raises nothing and leaves the registry as it was;
\* on a shared name it removes the entry and does not log that error.
C11_UnshareDiagnostic ==
    [][last'.op = "unshareModule"
          => /\ last'.exc = "none"
             /\ IF sharedModules[last'.obj] = None
                   THEN /\ NotSharedLogged(last'.logs)
                        /\ sharedModules' = sharedModules
                   ELSE /\ ~ NotSharedLogged(last'.logs)
                        /\ sharedModules'[last'.obj] = None]_vars

\* C13: at most one server is active per manager; createServer called while
\* a server is active is rejected with AlreadyRunning, starts no second
\* server and leaves the manager's server as it was.
C13_OneServer ==
    /\ server <= 1
    /\ (last.op = "createServer" /\ server > 1) => last.exc = "AlreadyRunning"

\* C14: stopServer raises nothing, whether or not createServer ran before
\* it; without a server it changes nothing, and after it no server serves.
C14_StopServerSafe ==
    last.op = "stopServer" => (last.exc = "none" /\ server = 0)

NotSharedErrorLogged(logs) ==
    \E i \in 1..Len(logs) :
        logs[i].level = "error" /\ logs[i].msg = "not shared"

\* C12: a lookup of a name that is not shared, made on a serving server
\* through getModule or from a client through getRemoteModule, raises
\* nothing, logs an error on the server and returns None; the client's
\* handle is in remoteModules and its module is None.
C12_AbsentLookupIsEmpty ==
    (/\ last.op \in {"getModule", "getRemoteModule"}
     /\ server > 0
     /\ sharedModules[last.obj] = None)
        => /\ last.exc = "none"
           /\ last.ret = "None"
           /\ last.val = None
           /\ NotSharedErrorLogged(last.logs)
           /\ last.op = "getRemoteModule"
                => /\ Len(remoteModules) > 0
                   /\ remoteModules[Len(remoteModules)] =
                        [name |-> last.obj, module |-> None]

\* C12, its case: a client asked a serving server for a name that is not
\* shared while another name is shared, and holds a handle without module.
C12_Witness ==
    /\ last.op = "getRemoteModule"
    /\ server > 0
    /\ sharedModules[last.obj] = None
    /\ \E n \in Names : sharedModules[n] # None
    /\ Len(remoteModules) > 0
    /\ remoteModules[Len(remoteModules)].module = None

\* A path without its first character when that is a slash.
StripLeadingSlash(path) ==
    IF path # <<>> /\ Head(path) = "/" THEN Tail(path) ELSE path

\* C15: getRemoteModuleUrl calls getRemoteModule with the host and the port
\* of the URL and with the path without its leading slash as the name,
\* whatever slashes the rest of the path holds.
C15_NameIsPathSansLeadingSlash ==
    url.resolved
        => /\ url.toHost = url.host
           /\ url.toPort = url.port
           /\ url.name = StripLeadingSlash(url.path)

\* C16: run on a task in the state its constructor left it in, with a work
\* callable, invokes the work callable once; the event leaves the task
\* running.
C16_RunInvokesWork ==
    [][(/\ last'.op \in RunCalls
        /\ current[last'.obj] = FysomInitial
        /\ funcKind[last'.obj] # "notcallable")
          => /\ last'.val = 1
             /\ last'.op = "run" => current'[last'.obj] = "running"]_vars

\* C17: after run the TaskResult's success is no longer None, and it is
\* True when the work callable is one that returns.
C17_SuccessRecorded ==
    last.op \in RunCalls
        => /\ result[last.obj].success # "None"
           /\ funcKind[last.obj] = "returns"
                => result[last.obj].success = "True"

\* C18: makeInterruptable with two callables, run, pause, resume: pause and
\* resume raise nothing, pause emits sigPaused and resume, after it, emits
\* sigResumed, and the task is running at the end.
C18_PauseThenResume ==
    (script.calls = PauseResume /\ Len(script.done) = Len(PauseResume))
        => /\ script.done[3].exc = "none"
           /\ script.done[3].sig = "sigPaused"
           /\ script.done[4].exc = "none"
           /\ script.done[4].sig = "sigResumed"
           /\ current[script.t] = "running"

\* C19: run, finish: finish raises nothing, emits sigFinished once, and
\* the task is stopped at the end.
C19_FinishStops ==
    (script.calls = RunFinish /\ Len(script.done) = Len(RunFinish))
        => /\ script.done[2].exc = "none"
           /\ script.done[2].sig = "sigFinished"
           /\ current[script.t] = "stopped"

\* C20: makeInterruptable raises nothing; with two callables the task is
\* interruptable afterwards and both are stored; with an argument that is
\* not callable the task and its attributes stay as they were.
C20_MakeInterruptable ==
    [][last'.op = "makeInterruptable"
          => /\ last'.exc = "none"
             /\ IF last'.val = Callables(TRUE, TRUE)
                   THEN /\ interruptable'[last'.obj]
                        /\ {"pausefunction", "resumefunction"}
                             \subseteq attrs'[last'.obj]
                   ELSE /\ interruptable'[last'.obj]
                             = interruptable[last'.obj]
                        /\ attrs'[last'.obj] = attrs[last'.obj]]_vars

\* C21: the PrePostTask constructor returns a task in stopped; its state is
\* always stopped or paused; prerun takes it from stopped to paused and
\* postrun from paused to stopped, each emitting its start signal and then
\* its finish signal; canPause returns False.
C21_PrePostLifecycle ==
    /\ last.op = "PrePostTask"
          => /\ last.exc = "none"
             /\ prepost[last.obj].exists
             /\ prepost[last.obj].current = "stopped"
    /\ \A t \in Tasks :
          prepost[t].exists
              => prepost[t].current
                    \in {ev.src : ev \in PrePostStateList.events}
    /\ (last.op = "prerun" /\ last.exc = "none")
          => /\ prepost[last.obj].current = "paused"
             /\ prepost[last.obj].emitted
                   = <<"sigPreExecStart", "sigPreExecFinish">>
    /\ (last.op = "postrun" /\ last.exc = "none")
          => /\ prepost[last.obj].current = "stopped"
             /\ prepost[last.obj].emitted
                   = <<"sigPostExecStart", "sigPostExecFinish">>
    /\ last.op = "PrePostTask.canPause"
          => (last.exc = "none" /\ last.ret = "False")

\* C22: a getModule served on a connection thread while shareModule and
\* unshareModule run for the same name raises nothing, and returns None or
\* an object.
C22_ConcurrentLookupSafe ==
    last.op = "getModule"
        => /\ last.exc = "none"
           /\ last.val \in Objs \cup {None}

\* C23: on a task given a pause and a resume function by makeInterruptable,
\* the pause handler invokes the pause function, once and nothing else, and
\* emits sigPaused; the resume handler invokes the resume function, once
\* and nothing else, and emits sigResumed.
C23_OwnCallableThenSignal ==
    (/\ script.calls = PauseResumeHandlers
     /\ Len(script.done) = Len(PauseResumeHandlers))
        => /\ script.done[2].called = <<"pausefunction">>
           /\ script.done[2].sig = "sigPaused"
           /\ script.done[3].called = <<"resumefunction">>
           /\ script.done[3].sig = "sigResumed"

\* C24: the server answers from the registry as it is at the request: a
\* getModule that follows, with a server running, a shareModule for its
\* name returns the object of that call, and one that follows an
\* unshareModule for its name returns None.
C24_LiveRegistry ==
    [][(last'.op = "getModule" /\ server > 0 /\ last.obj = last'.obj)
          => /\ last.op = "shareModule" => last'.val = last.val
             /\ last.op = "unshareModule" => last'.val = None]_vars

=============================================================================
